---- MODULE Spec2Model ----
(***************************************************************************)
(* Model of the Nightscout history updater                                 *)
(* (src/nightscout_dash/update_history.py): the SQLite table               *)
(* running_averages, the minute reducer inside insert_minute_averages and  *)
(* the catch-up loop of main().                                            *)
(*                                                                         *)
(* Dates are proleptic Gregorian ordinals (datetime.date.toordinal()); a   *)
(* date string 'YYYY-MM-DD' is the tuple <<Y, M, D>>, compared the way     *)
(* SQLite compares the zero-padded TEXT (lexicographically).  The local    *)
(* time zone of the machine is taken to be UTC.  A storage fault is a       *)
(* sqlite3.Error raised inside the try blocks of the archiver (the ones    *)
(* its handlers catch); a failing sqlite3.connect is not modelled.         *)
(***************************************************************************)
EXTENDS Integers, Sequences, FiniteSets, TLC

VARIABLES
    today,               \* date of datetime.datetime.now(), an ordinal
    running_averages,    \* the table: a set of rows
    pc,                  \* pc[p]: position of run p in main()
    initial_days_back,   \* initial_days_back[p]: args.initial_days_back
    now_date,            \* now_date[p]: now_dt.date() read at the loop head
    next_date_to_fetch,  \* next_date_to_fetch[p]
    day_entries,         \* day_entries[p]: response.json()
    fetched,             \* history: days fetched by run p, in order
    faults,              \* history: number of sqlite3.Error raised so far
    calls                \* history: the latest store calls (see CallRecord)

vars == <<today, running_averages, pc, initial_days_back, now_date,
          next_date_to_fetch, day_entries, fetched, faults, calls>>

(***************************************************************************)
(* Bounds of the model.                                                    *)
(***************************************************************************)
MaxEntries == 2     \* longest list of entries one fetch returns
MaxTicks == 1       \* how many times midnight passes
MaxDaysBack == 2    \* largest --initial-days-back of the scheduler runs
MaxFaults == 1      \* how many sqlite3.Error the store raises
DueSpan == 21       \* width of the date range of the next-day checks
MaxReduce == 3      \* longest list of entries given to the reducer alone

DEFAULT_INITIAL_BACKFILL_DAYS == 14

Procs == {1, 2}

None == <<>>        \* Python's None, and the falsy empty string

(***************************************************************************)
(* Calendar: datetime.date <-> 'YYYY-MM-DD'                                *)
(***************************************************************************)
is_leap(y) == y % 4 = 0 /\ (y % 100 # 0 \/ y % 400 = 0)

DAYS_BEFORE_MONTH == <<0, 31, 59, 90, 120, 151, 181, 212, 243, 273, 304, 334>>

days_before_year(year) ==
    LET y == year - 1
    IN  y * 365 + (y \div 4) - (y \div 100) + (y \div 400)

days_before_month(y, m) ==
    DAYS_BEFORE_MONTH[m] + (IF m > 2 /\ is_leap(y) THEN 1 ELSE 0)

\* datetime.datetime.strptime(s, '%Y-%m-%d').date(), as an ordinal
strptime(s) == days_before_year(s[1]) + days_before_month(s[1], s[2]) + s[3]

\* date.strftime('%Y-%m-%d') of the date with ordinal ord
strftime(ord) ==
    LET n0   == ord - 1
        n400 == n0 \div 146097
        r400 == n0 % 146097
        n100 == r400 \div 36524
        r100 == r400 % 36524
        n4   == r100 \div 1461
        r4   == r100 % 1461
        n1   == r4 \div 365
        n    == r4 % 365
        year == n400 * 400 + 1 + n100 * 100 + n4 * 4 + n1
    IN  IF n1 = 4 \/ n100 = 4
        THEN <<year - 1, 12, 31>>
        ELSE LET leapyear == n1 = 3 /\ (n4 # 24 \/ n100 = 3)
                 lp(m)    == IF m > 2 /\ leapyear THEN 1 ELSE 0
                 month0   == (n + 50) \div 32
                 month    == IF DAYS_BEFORE_MONTH[month0] + lp(month0) > n
                             THEN month0 - 1 ELSE month0
                 preceding == DAYS_BEFORE_MONTH[month] + lp(month)
             IN  <<year, month, n - preceding + 1>>

\* a <= b for two date strings, as SQLite orders TEXT
StrLeq(a, b) ==
    \/ a[1] < b[1]
    \/ a[1] = b[1] /\ a[2] < b[2]
    \/ a[1] = b[1] /\ a[2] = b[2] /\ a[3] <= b[3]

(***************************************************************************)
(* The table running_averages, PRIMARY KEY (date_str, minute_of_day)       *)
(***************************************************************************)
Row(d, m, v) == [date_str |-> d, minute_of_day |-> m, avg_sgv |-> v]

SameKey(r, s) == r.date_str = s.date_str /\ r.minute_of_day = s.minute_of_day

\* SELECT MAX(date_str) FROM running_averages
get_latest_date(table) ==
    IF table = {} THEN None
    ELSE (CHOOSE r \in table :
            \A s \in table : StrLeq(s.date_str, r.date_str)).date_str

\* a slip in the statement: INSERT OR REPLACE instead of INSERT OR IGNORE
InsertOrOverwrite(table, row) ==
    {s \in table : ~SameKey(s, row)} \cup {row}

\* INSERT OR IGNORE INTO running_averages VALUES (date_str, 0, 0)
InsertOrIgnore(table, row) ==
    IF \E s \in table : SameKey(s, row) THEN table ELSE table \cup {row}

\* a slip in the statement: the stored value is added to instead of replaced
InsertOrAccumulate(table, rows) ==
    {s \in table : \A r \in rows : ~SameKey(s, r)} \cup
    {Row(r.date_str, r.minute_of_day,
         IF \E s \in table : SameKey(s, r)
         THEN r.avg_sgv + (CHOOSE s \in table : SameKey(s, r)).avg_sgv
         ELSE r.avg_sgv) : r \in rows}

\* a slip in the statement: the day's rows are deleted before the insert
InsertOrReplaceDay(table, rows) ==
    {s \in table : \A r \in rows : s.date_str # r.date_str} \cup rows

\* executemany(INSERT OR REPLACE ...) over rows of distinct keys
InsertOrReplace(table, rows) ==
    {s \in table : \A r \in rows : ~SameKey(s, r)} \cup rows

\* a slip in the placeholder: it is written at minute 1
mark_day_as_checked_minute1(table, date_str, fault) ==
    IF fault = "error" THEN table
    ELSE InsertOrIgnore(table, Row(date_str, 1, 0))

\* fault = "error": the statement or the commit raises sqlite3.Error, the
\* handler rolls back and the method returns normally.
mark_day_as_checked(table, date_str, fault) ==
    IF fault = "error" THEN table
    ELSE InsertOrIgnore(table, Row(date_str, 0, 0))

(***************************************************************************)
(* The minute reducer (first half of insert_minute_averages)               *)
(***************************************************************************)
\* a slip in the test: "not sgv" instead of "sgv is None", so 0 is dropped
IsFalsy(entry, k) == k \notin DOMAIN entry \/ entry[k] = 0

\* entry.get(k) is None: the key is missing (or null) in the entry
IsNone(entry, k) == k \notin DOMAIN entry

\* a slip in the bucket: minutes since the epoch, the day not taken out
minute_of_epoch(timestamp_ms) == timestamp_ms \div 60000

\* entry_dt.hour * 60 + entry_dt.minute of fromtimestamp(timestamp_ms / 1000)
minute_of_day(timestamp_ms) == (timestamp_ms \div 60000) % 1440

\* a slip in the accumulation: the latest entry of a minute replaces the
\* earlier ones instead of adding to them
RECURSIVE minute_data_latest(_)
minute_data_latest(entries) ==
    IF entries = <<>> THEN [k \in {} |-> [sum |-> 0, count |-> 0]]
    ELSE LET n     == Len(entries)
             entry == entries[n]
             prev  == minute_data_latest(SubSeq(entries, 1, n - 1))
         IN  IF IsNone(entry, "sgv") \/ IsNone(entry, "date") THEN prev
             ELSE LET m == minute_of_day(entry.date)
                  IN  [k \in DOMAIN prev \cup {m} |->
                         IF k = m THEN [sum |-> entry.sgv, count |-> 1]
                         ELSE prev[k]]

RECURSIVE minute_data(_)
minute_data(entries) ==
    IF entries = <<>> THEN [k \in {} |-> [sum |-> 0, count |-> 0]]
    ELSE LET n     == Len(entries)
             entry == entries[n]
             prev  == minute_data(SubSeq(entries, 1, n - 1))
         IN  IF IsNone(entry, "sgv") \/ IsNone(entry, "date") THEN prev
             ELSE LET m   == minute_of_day(entry.date)
                      old == IF m \in DOMAIN prev THEN prev[m]
                             ELSE [sum |-> 0, count |-> 0]
                  IN  [k \in DOMAIN prev \cup {m} |->
                         IF k = m
                         THEN [sum |-> old.sum + entry.sgv,
                               count |-> old.count + 1]
                         ELSE prev[k]]

\* a slip in the average: integer division instead of round()
floor_div(sum, count) == sum \div count

\* Python's round(sum / count): nearest integer, ties to even
round_div(sum, count) ==
    LET q == sum \div count
        r == sum % count
    IN  IF 2 * r < count THEN q
        ELSE IF 2 * r > count THEN q + 1
        ELSE IF q % 2 = 0 THEN q ELSE q + 1

data_to_insert(date_str, md) ==
    {Row(date_str, m, round_div(md[m].sum, md[m].count)) : m \in DOMAIN md}

\* a slip in the error handler: no rollback, the rows executed before the
\* error (here the one of the smallest minute) stay in the table
insert_minute_averages_partial(table, date_str, entries, fault) ==
    LET md == minute_data(entries)
    IN  IF DOMAIN md = {} THEN mark_day_as_checked(table, date_str, fault)
        ELSE IF fault = "error"
        THEN InsertOrReplace(table,
                {r \in data_to_insert(date_str, md) :
                    \A m \in DOMAIN md : r.minute_of_day <= m})
        ELSE InsertOrReplace(table, data_to_insert(date_str, md))

insert_minute_averages(table, date_str, entries, fault) ==
    LET md == minute_data(entries)
    IN  IF DOMAIN md = {} THEN mark_day_as_checked(table, date_str, fault)
        ELSE IF fault = "error" THEN table
        ELSE InsertOrReplace(table, data_to_insert(date_str, md))

(***************************************************************************)
(* main(): the next day to fetch                                           *)
(***************************************************************************)
date_of_last_full_day(now) == now - 1

\* a slip in the empty-store branch: one day too late
NextDateShortBackfill(now, latest_date_str, days_back) ==
    IF latest_date_str # None
    THEN strptime(latest_date_str) + 1
    ELSE now - days_back + 1

\* a slip in the watermark branch: a day is skipped
NextDateSkipsDay(now, latest_date_str, days_back) ==
    IF latest_date_str # None
    THEN strptime(latest_date_str) + 2
    ELSE now - days_back

NextDate(now, latest_date_str, days_back) ==
    IF latest_date_str # None
    THEN strptime(latest_date_str) + 1
    ELSE now - days_back

\* a slip in the comparison: today counts as a full day
IsDueToday(next, now) == next <= now

IsDue(next, now) == next <= date_of_last_full_day(now)
(***************************************************************************)
(* Inputs of the model                                                     *)
(***************************************************************************)
SeqsUpTo(S, n) == UNION {[1..k -> S] : k \in 0..n}

\* what the remote source returns to the scheduler runs: no entry, one
\* entry at 00:00:10, that entry and one at 23:59:00, an entry without a
\* timestamp
FetchResults ==
    {<<>>,
     <<[date |-> 10000, sgv |-> 100]>>,
     <<[date |-> 10000, sgv |-> 100], [date |-> 86340000, sgv |-> 101]>>,
     <<[sgv |-> 100]>>}

\* entries given to the store operations when they are checked on their own
StoreEntryPool ==
    {[date |-> 10000, sgv |-> 100],
     [date |-> 40000, sgv |-> 120],
     [date |-> 40000, sgv |-> 101],
     [date |-> 172740000, sgv |-> 101],
     [date |-> 0, sgv |-> 0],
     [sgv |-> 100],
     [date |-> 10000]}

StoreEntryLists == SeqsUpTo(StoreEntryPool, MaxEntries)

\* entries given to the reducer when it is checked on its own: 00:00:10,
\* 00:00:40 (twice), 00:00:59.999, 12:34:56, 23:59:59.999 of the next day,
\* 23:59:59.999 of the day before the epoch, the epoch with value 0, and
\* entries without a timestamp or without a value
ReduceEntryPool ==
    {[date |-> 10000, sgv |-> 100],
     [date |-> 40000, sgv |-> 120],
     [date |-> 40000, sgv |-> 101],
     [date |-> 59999, sgv |-> 102],
     [date |-> 45296000, sgv |-> 7],
     [date |-> 172799999, sgv |-> 101],
     [date |-> -1, sgv |-> 90],
     [date |-> 0, sgv |-> 0],
     [sgv |-> 100],
     [date |-> 10000]}

ReduceEntryLists == SeqsUpTo(ReduceEntryPool, MaxReduce)

ReduceDate == <<2024, 2, 29>>

Faults == {"none", "error"}

Today0 == strptime(<<2024, 2, 29>>)

\* stores a scheduler run may find: every date is before Today0
InitTables ==
    {{},
     {Row(strftime(Today0 - 1), 0, 0)},
     {Row(strftime(Today0 - 2), 0, 100), Row(strftime(Today0 - 2), 1439, 101)},
     {Row(strftime(Today0 - 3), 725, 90), Row(strftime(Today0 - 2), 0, 0)}}

StoreDates == {<<2024, 2, 28>>, <<2024, 2, 29>>}

StoreKeys == StoreDates \X {0, 1439}

\* every table over StoreKeys with at most one row per key
StoreTables ==
    {{Row(k[1], k[2], f[k]) : k \in {j \in StoreKeys : f[j] # -1}} :
        f \in [StoreKeys -> {-1, 0, 77}]}

DueLast == strptime(<<2024, 3, 20>>)

(***************************************************************************)
(* main(): one run p of the catch-up loop                                  *)
(***************************************************************************)
date_str(p) == strftime(next_date_to_fetch[p])

CallRecord(op, d, es, f, pre, post) ==
    [op |-> op, date_str |-> d, entries |-> es, fault |-> f,
     pre |-> pre, post |-> post]

Init ==
    /\ today = Today0
    /\ running_averages \in InitTables
    /\ pc = [p \in Procs |-> "idle"]
    /\ initial_days_back = [p \in Procs |-> DEFAULT_INITIAL_BACKFILL_DAYS]
    /\ now_date = [p \in Procs |-> Today0]
    /\ next_date_to_fetch = [p \in Procs |-> Today0]
    /\ day_entries = [p \in Procs |-> <<>>]
    /\ fetched = [p \in Procs |-> <<>>]
    /\ faults = 0
    /\ calls = <<>>

\* the script is invoked with --initial-days-back in days: args are parsed
\* and the archiver is constructed
StartWith(p, days) ==
    /\ pc[p] \in {"idle", "done"}
    /\ \E n \in days :
          initial_days_back' = [initial_days_back EXCEPT ![p] = n]
    /\ pc' = [pc EXCEPT ![p] = "loop"]
    /\ fetched' = [fetched EXCEPT ![p] = <<>>]
    /\ UNCHANGED <<today, running_averages, now_date, next_date_to_fetch,
                   day_entries, faults, calls>>

Start(p) == StartWith(p, 0..MaxDaysBack)

\* the head of an iteration, up to the test of next_date_to_fetch
LoopHead(p) ==
    /\ pc[p] = "loop"
    /\ LET latest_date_str == get_latest_date(running_averages)
           next == NextDate(today, latest_date_str, initial_days_back[p])
       IN  /\ now_date' = [now_date EXCEPT ![p] = today]
           /\ next_date_to_fetch' = [next_date_to_fetch EXCEPT ![p] = next]
           /\ pc' = [pc EXCEPT ![p] = IF IsDue(next, today)
                                      THEN "fetch" ELSE "done"]
    /\ UNCHANGED <<today, running_averages, initial_days_back, day_entries,
                   fetched, faults, calls>>

\* a slip in the error handler: the failed day is marked as checked
FetchFailMarksDay(p) ==
    /\ pc[p] = "fetch"
    /\ pc' = [pc EXCEPT ![p] = "done"]
    /\ running_averages' =
          InsertOrIgnore(running_averages, Row(date_str(p), 0, 0))
    /\ UNCHANGED <<today, initial_days_back, now_date, next_date_to_fetch,
                   day_entries, fetched, faults, calls>>

\* requests.get raises, or the status is not a success: break
FetchFail(p) ==
    /\ pc[p] = "fetch"
    /\ pc' = [pc EXCEPT ![p] = "done"]
    /\ UNCHANGED <<today, running_averages, initial_days_back, now_date,
                   next_date_to_fetch, day_entries, fetched, faults, calls>>

\* requests.get succeeds and response.json() is one of the lists in results
FetchOkFrom(p, results) ==
    /\ pc[p] = "fetch"
    /\ \E es \in results :
          day_entries' = [day_entries EXCEPT ![p] = es]
    /\ fetched' = [fetched EXCEPT ![p] = Append(@, next_date_to_fetch[p])]
    /\ pc' = [pc EXCEPT ![p] = "store"]
    /\ UNCHANGED <<today, running_averages, initial_days_back, now_date,
                   next_date_to_fetch, faults, calls>>

FetchOk(p) == FetchOkFrom(p, FetchResults)

StoreResult(table, d, es, f) ==
    IF es # <<>> THEN insert_minute_averages(table, d, es, f)
    ELSE mark_day_as_checked(table, d, f)

\* an archiver call after which the run always starts the loop over
StoreDayThenLoops(p, fs, then) ==
    /\ pc[p] = "store"
    /\ \E f \in fs :
          /\ f = "error" => faults < MaxFaults
          /\ faults' = IF f = "error" THEN faults + 1 ELSE faults
          /\ LET post == StoreResult(running_averages, date_str(p),
                                     day_entries[p], f)
             IN  /\ running_averages' = post
                 /\ calls' = <<CallRecord(IF day_entries[p] # <<>>
                                          THEN "insert" ELSE "mark",
                                          date_str(p), day_entries[p], f,
                                          running_averages, post)>>
    /\ pc' = [pc EXCEPT ![p] = "loop"]
    /\ UNCHANGED <<today, initial_days_back, now_date, next_date_to_fetch,
                   day_entries, fetched>>

\* the archiver call of an iteration, the store behaving as one of fs; the
\* run then goes on at position then
StoreDayThen(p, fs, then) ==
    /\ pc[p] = "store"
    /\ \E f \in fs :
          /\ f = "error" => faults < MaxFaults
          /\ faults' = IF f = "error" THEN faults + 1 ELSE faults
          /\ LET post == StoreResult(running_averages, date_str(p),
                                     day_entries[p], f)
             IN  /\ running_averages' = post
                 /\ calls' = <<CallRecord(IF day_entries[p] # <<>>
                                          THEN "insert" ELSE "mark",
                                          date_str(p), day_entries[p], f,
                                          running_averages, post)>>
    /\ pc' = [pc EXCEPT ![p] = then]
    /\ UNCHANGED <<today, initial_days_back, now_date, next_date_to_fetch,
                   day_entries, fetched>>

\* the archiver call of the catch-up loop: the loop then starts over
StoreDayWith(p, fs) == StoreDayThen(p, fs, "loop")

StoreDay(p) == StoreDayWith(p, Faults)

\* midnight passes
Tick ==
    /\ today < Today0 + MaxTicks
    /\ today' = today + 1
    /\ UNCHANGED <<running_averages, pc, initial_days_back, now_date,
                   next_date_to_fetch, day_entries, fetched, faults, calls>>

Next ==
    \/ Start(1)
    \/ LoopHead(1)
    \/ FetchFail(1)
    \/ FetchOk(1)
    \/ StoreDay(1)
    \/ Tick

Spec == Init /\ [][Next]_vars
(***************************************************************************)
(* The next-day computation on its own: one loop head from any watermark   *)
(***************************************************************************)
DueDays == (DueLast - DueSpan - 2)..(DueLast + 1)

InitDue ==
    /\ today \in (DueLast - DueSpan)..DueLast
    /\ running_averages \in
          {{}} \cup {{Row(strftime(w), 0, 0)} : w \in DueDays}
    /\ pc = [p \in Procs |-> IF p = 1 THEN "loop" ELSE "idle"]
    /\ initial_days_back \in
          {[p \in Procs |-> n] :
             n \in (0..MaxDaysBack) \cup {DEFAULT_INITIAL_BACKFILL_DAYS}}
    /\ now_date = [p \in Procs |-> today]
    /\ next_date_to_fetch = [p \in Procs |-> today]
    /\ day_entries = [p \in Procs |-> <<>>]
    /\ fetched = [p \in Procs |-> <<>>]
    /\ faults = 0
    /\ calls = <<>>

NextDue == LoopHead(1)

SpecDue == InitDue /\ [][NextDue]_vars

\* the watermark of the store, as a date (an ordinal)
WatermarkDay == CHOOSE o \in DueDays : strftime(o) = get_latest_date(running_averages)

\* C1: with a non-empty watermark w the loop head chooses w+1 exactly when
\* w+1 <= today-1, and otherwise ends the run with nothing fetched or
\* written; watermark 2024-03-19 on 2024-03-20 gives no due day.
C1_NextDayAfterWatermark ==
    (pc[1] \in {"fetch", "done"} /\ get_latest_date(running_averages) # None) =>
        /\ (pc[1] = "fetch") <=> (WatermarkDay + 1 <= today - 1)
        /\ pc[1] = "fetch" => next_date_to_fetch[1] = WatermarkDay + 1
        /\ pc[1] = "done" => fetched[1] = <<>> /\ calls = <<>>
        /\ WatermarkDay = today - 1 => pc[1] = "done"
        /\ (get_latest_date(running_averages) = <<2024, 3, 19>>
              /\ strftime(today) = <<2024, 3, 20>>) => pc[1] = "done"

C1_Witness ==
    /\ pc[1] = "fetch"
    /\ get_latest_date(running_averages) = <<2024, 2, 28>>
    /\ strftime(next_date_to_fetch[1]) = <<2024, 2, 29>>
    /\ strftime(today) = <<2024, 3, 1>>

\* C2: with an empty store the loop head chooses today - initial_days_back
\* and processes it exactly when it is <= today-1; on 2024-03-20 with the
\* default of 14 days the first due day is 2024-03-06.
C2_NextDayEmptyStore ==
    (pc[1] \in {"fetch", "done"} /\ running_averages = {}) =>
        /\ next_date_to_fetch[1] = today - initial_days_back[1]
        /\ (pc[1] = "fetch") <=> (today - initial_days_back[1] <= today - 1)
        /\ (strftime(today) = <<2024, 3, 20>> /\ initial_days_back[1] = 14) =>
              /\ pc[1] = "fetch"
              /\ strftime(next_date_to_fetch[1]) = <<2024, 3, 6>>
        /\ DEFAULT_INITIAL_BACKFILL_DAYS = 14

C2_Witness ==
    /\ pc[1] = "fetch"
    /\ running_averages = {}
    /\ strftime(today) = <<2024, 3, 20>>
    /\ initial_days_back[1] = DEFAULT_INITIAL_BACKFILL_DAYS
    /\ strftime(next_date_to_fetch[1]) = <<2024, 3, 6>>
(***************************************************************************)
(* The catch-up loop                                                       *)
(***************************************************************************)
Dates(table) == {strptime(r.date_str) : r \in table}

RowsOf(table, d) == {r \in table : r.date_str = d}

\* C3: no row is ever written whose date is today or later at the time of
\* the write, whatever the fetches return and although midnight may pass
\* between the loop head and the write; the watermark stays <= today-1.
C3_TodayNeverWritten ==
    /\ [](\A r \in running_averages : strptime(r.date_str) <= today - 1)
    /\ [][\A r \in running_averages' \ running_averages :
             strptime(r.date_str) <= today' - 1]_vars

\* a day was written although midnight passed after the loop head read the
\* clock: it is the last full day of the clock as read
C3_Witness ==
    /\ pc[1] = "loop"
    /\ calls # <<>>
    /\ calls[1].post # calls[1].pre
    /\ running_averages = calls[1].post
    /\ strptime(calls[1].date_str) = now_date[1] - 1
    /\ today = now_date[1] + 1

\* a run from an empty store on a fixed day, every fetch returning one
\* valid entry and the store never failing
OneEntryResults ==
    {<<e>> : e \in {x \in StoreEntryPool : DOMAIN x = {"date", "sgv"}}}

InitCatchUp ==
    /\ today = Today0
    /\ running_averages = {}
    /\ pc = [p \in Procs |-> IF p = 1 THEN "loop" ELSE "idle"]
    /\ initial_days_back \in {[p \in Procs |-> n] : n \in 1..(MaxDaysBack + 1)}
    /\ now_date = [p \in Procs |-> today]
    /\ next_date_to_fetch = [p \in Procs |-> today]
    /\ day_entries = [p \in Procs |-> <<>>]
    /\ fetched = [p \in Procs |-> <<>>]
    /\ faults = 0
    /\ calls = <<>>

NextCatchUp ==
    \/ LoopHead(1)
    \/ FetchOkFrom(1, OneEntryResults)
    \/ StoreDayWith(1, {"none"})

\* main() is sequential code: a step that can be taken is taken
SpecCatchUp == InitCatchUp /\ [][NextCatchUp]_vars /\ WF_vars(NextCatchUp)

\* C4: a full catch-up from an empty store with initial_days_back = N >= 1,
\* a fixed today and fetches that always return one valid entry ends, having
\* fetched exactly the days today-N .. today-1 in increasing order, each
\* once, with the watermark at today-1.
C4_CatchUpTerminates ==
    <>[](/\ pc[1] = "done"
         /\ fetched[1] = [i \in 1..initial_days_back[1] |->
                            today - initial_days_back[1] + i - 1]
         /\ Dates(running_averages) =
               (today - initial_days_back[1])..(today - 1)
         /\ get_latest_date(running_averages) = strftime(today - 1))

C4_Witness ==
    /\ pc[1] = "done"
    /\ initial_days_back[1] = 2
    /\ fetched[1] = <<today - 2, today - 1>>
    /\ get_latest_date(running_averages) = <<2024, 2, 28>>
    /\ Cardinality(running_averages) = 2

\* C5: when the fetch for the due day d fails the run stops at once, the
\* store and so the watermark are unchanged, and a next run with the same
\* today and arguments chooses d again.
C5_FetchFailureWritesNothing ==
    [][(pc[1] = "fetch" /\ pc'[1] \notin {"fetch", "store"}) =>
          /\ pc'[1] = "done"
          /\ running_averages' = running_averages
          /\ get_latest_date(running_averages')
                = get_latest_date(running_averages)
          /\ calls' = calls
          /\ LET next == NextDate(now_date[1],
                                  get_latest_date(running_averages'),
                                  initial_days_back[1])
             IN  next = next_date_to_fetch[1] /\ IsDue(next, now_date[1])]_vars

\* the run stopped on a day that was due, after it had stored a day
C5_Witness ==
    /\ pc[1] = "done"
    /\ IsDue(next_date_to_fetch[1], now_date[1])
    /\ Len(fetched[1]) = 1
    /\ calls # <<>>
    /\ calls[1].fault = "none"
    /\ get_latest_date(running_averages) = strftime(next_date_to_fetch[1] - 1)

\* C6: when the fetch for the due day d returns no entry and the insert does
\* not raise, the store then holds exactly one row for d, the placeholder
\* (d, 0, 0), the rows of the other dates are as before, and the latest date
\* is d.
C6_EmptyDayPlaceholder ==
    (calls # <<>> /\ calls[1].op = "mark" /\ calls[1].fault = "none") =>
        LET d == calls[1].date_str
        IN  /\ running_averages = calls[1].post
            /\ RowsOf(running_averages, d) = {Row(d, 0, 0)}
            /\ running_averages \ RowsOf(running_averages, d) = calls[1].pre
            /\ get_latest_date(running_averages) = d

C6_Witness ==
    /\ calls # <<>>
    /\ calls[1].op = "mark"
    /\ calls[1].fault = "none"
    /\ calls[1].pre # {}
    /\ Row(calls[1].date_str, 0, 0) \in running_averages

\* runs of the catch-up loop over a store that starts empty
InitEmpty == Init /\ running_averages = {}

SpecFromEmpty == InitEmpty /\ [][Next]_vars

\* C7: from an empty store, whatever the runs fetch and however they fail,
\* the dates that have a row are the days from the first processed day up to
\* the watermark, none missing.
C7_NoGap ==
    \A a \in Dates(running_averages) : \A b \in Dates(running_averages) :
        \A c \in a..b : c \in Dates(running_averages)

\* three days in a row: one with averages, one with only the placeholder,
\* after a store error
C7_Witness ==
    /\ Cardinality(Dates(running_averages)) >= 3
    /\ faults > 0
    /\ \E r \in running_averages : r.avg_sgv # 0
    /\ \E r \in running_averages :
          RowsOf(running_averages, r.date_str) = {Row(r.date_str, 0, 0)}
(***************************************************************************)
(* The store operations on their own: one call on any table, then the      *)
(* same call again                                                         *)
(***************************************************************************)
InitStore ==
    /\ today = Today0
    /\ running_averages \in StoreTables
    /\ pc = [p \in Procs |-> "idle"]
    /\ initial_days_back = [p \in Procs |-> DEFAULT_INITIAL_BACKFILL_DAYS]
    /\ now_date = [p \in Procs |-> Today0]
    /\ next_date_to_fetch = [p \in Procs |-> Today0]
    /\ day_entries = [p \in Procs |-> <<>>]
    /\ fetched = [p \in Procs |-> <<>>]
    /\ faults = 0
    /\ calls = <<>>

CallResult(op, table, d, es, f) ==
    IF op = "insert" THEN insert_minute_averages(table, d, es, f)
    ELSE mark_day_as_checked(table, d, f)

Call(op, d, es, f) ==
    /\ f = "error" => faults < MaxFaults
    /\ faults' = IF f = "error" THEN faults + 1 ELSE faults
    /\ running_averages' = CallResult(op, running_averages, d, es, f)
    /\ calls' = Append(calls, CallRecord(op, d, es, f, running_averages,
                                         running_averages'))
    /\ UNCHANGED <<today, pc, initial_days_back, now_date, next_date_to_fetch,
                   day_entries, fetched>>

\* archiver.insert_minute_averages(d, es)
CallInsert ==
    /\ calls = <<>>
    /\ \E d \in StoreDates, es \in StoreEntryLists, f \in Faults :
          Call("insert", d, es, f)

\* archiver.mark_day_as_checked(d)
CallMark ==
    /\ calls = <<>>
    /\ \E d \in StoreDates, f \in Faults : Call("mark", d, <<>>, f)

\* the same call once more
CallAgain ==
    /\ Len(calls) = 1
    /\ \E f \in Faults :
          Call(calls[1].op, calls[1].date_str, calls[1].entries, f)

NextStore == CallInsert \/ CallMark \/ CallAgain

SpecStore == InitStore /\ [][NextStore]_vars

\* the minute keys of the valid entries of a list
MinuteKeys(es) ==
    {minute_of_day(es[i].date) :
        i \in {j \in 1..Len(es) : DOMAIN es[j] = {"date", "sgv"}}}

\* C8: insert_minute_averages called a second time with the same date and
\* entries leaves the store as the first call left it.
C8_UpsertIdempotent ==
    (Len(calls) = 2 /\ calls[1].op = "insert" /\ calls[1].fault = "none") =>
        /\ calls[2].pre = calls[1].post
        /\ calls[2].post = calls[1].post
        /\ running_averages = calls[1].post

\* the second call found rows of its own keys and rewrote them
C8_Witness ==
    /\ Len(calls) = 2
    /\ calls[1].op = "insert"
    /\ calls[1].fault = "none"
    /\ calls[2].fault = "none"
    /\ Cardinality(MinuteKeys(calls[1].entries)) = 2
    /\ calls[1].post # calls[1].pre

\* C9: a successful upsert for date d with minute keys K leaves every row
\* (d, m') with m' not in K and every row of another date in place and
\* unchanged, and touches only the rows (d, m) with m in K, one per key.
C9_UpsertFrame ==
    \A i \in 1..Len(calls) :
        LET c == calls[i]
            K == MinuteKeys(c.entries)
        IN  (c.op = "insert" /\ c.fault = "none" /\ K # {}) =>
               /\ \A r \in c.pre :
                     (r.date_str # c.date_str \/ r.minute_of_day \notin K)
                        => r \in c.post
               /\ \A r \in c.post :
                     \/ r \in c.pre
                     \/ r.date_str = c.date_str /\ r.minute_of_day \in K
               /\ \A m \in K :
                     Cardinality({r \in c.post : /\ r.date_str = c.date_str
                                                 /\ r.minute_of_day = m}) = 1
               /\ data_to_insert(c.date_str, minute_data(c.entries))
                     \subseteq c.post

\* the upsert replaced a row of d and left another row of d alone
C9_Witness ==
    /\ Len(calls) = 1
    /\ calls[1].op = "insert"
    /\ calls[1].fault = "none"
    /\ MinuteKeys(calls[1].entries) = {0}
    /\ Row(calls[1].date_str, 0, 77) \in calls[1].pre
    /\ Row(calls[1].date_str, 1439, 77) \in calls[1].pre
    /\ Row(calls[1].date_str, 0, 100) \in running_averages
    /\ Row(calls[1].date_str, 1439, 77) \in running_averages

\* C10: mark_day_as_checked erases and alters nothing: every row there
\* before the call, a real average at (d, 0) included, is there after it
\* with the same value.
C10_MarkKeepsRows ==
    \A i \in 1..Len(calls) :
        (calls[i].op = "mark" \/ MinuteKeys(calls[i].entries) = {}) =>
            /\ calls[i].pre \subseteq calls[i].post
            /\ \A r \in calls[i].post : \A s \in calls[i].pre :
                  SameKey(r, s) => r = s

\* the day already had a real average at minute 0
C10_Witness ==
    /\ Len(calls) = 1
    /\ calls[1].op = "mark"
    /\ calls[1].fault = "none"
    /\ Row(calls[1].date_str, 0, 77) \in calls[1].pre
    /\ Row(calls[1].date_str, 0, 77) \in running_averages
\* C11: mark_day_as_checked writes the placeholder (d, 0, 0) if and only if
\* the date d has no row at all before the call; when d has any row, at
\* minute 0 or elsewhere, the call adds nothing.
C11_MarkOnlyOnEmptyDay ==
    \A i \in 1..Len(calls) :
        (calls[i].op = "mark" /\ calls[i].fault = "none") =>
            IF RowsOf(calls[i].pre, calls[i].date_str) = {}
            THEN calls[i].post =
                    calls[i].pre \cup {Row(calls[i].date_str, 0, 0)}
            ELSE calls[i].post = calls[i].pre

\* C12: when the write of a day's minute averages raises a storage error,
\* none of the call's rows is in the store afterwards that was not there
\* before, the store is as before the call, and the latest date is the same.
C12_StorageErrorAtomic ==
    \A i \in 1..Len(calls) :
        calls[i].fault = "error" =>
            /\ calls[i].post = calls[i].pre
            /\ get_latest_date(calls[i].post) = get_latest_date(calls[i].pre)
            /\ i = Len(calls) => running_averages = calls[i].pre
            /\ \A r \in data_to_insert(calls[i].date_str,
                                       minute_data(calls[i].entries)) :
                  r \in calls[i].post => r \in calls[i].pre

\* the failed upsert had two rows to write, for a date later than every
\* date of the table
C12_Witness ==
    /\ Len(calls) = 1
    /\ calls[1].op = "insert"
    /\ calls[1].fault = "error"
    /\ calls[1].date_str = <<2024, 2, 29>>
    /\ MinuteKeys(calls[1].entries) = {0, 1439}
    /\ get_latest_date(running_averages) = <<2024, 2, 28>>
    /\ running_averages # {}
(***************************************************************************)
(* The reducer on its own: one insert_minute_averages of any entry list    *)
(* for a date later than every date of the table, the store not failing    *)
(***************************************************************************)
InitReduce ==
    /\ today = Today0 + 1
    /\ running_averages \in {{}, {Row(<<2024, 2, 28>>, 0, 0)}}
    /\ pc = [p \in Procs |-> "idle"]
    /\ initial_days_back = [p \in Procs |-> DEFAULT_INITIAL_BACKFILL_DAYS]
    /\ now_date = [p \in Procs |-> today]
    /\ next_date_to_fetch = [p \in Procs |-> today]
    /\ day_entries = [p \in Procs |-> <<>>]
    /\ fetched = [p \in Procs |-> <<>>]
    /\ faults = 0
    /\ calls = <<>>

CallReduce ==
    /\ calls = <<>>
    /\ \E es \in ReduceEntryLists : Call("insert", ReduceDate, es, "none")

NextReduce == CallReduce

SpecReduce == InitReduce /\ [][NextReduce]_vars

IsValid(entry) == DOMAIN entry = {"date", "sgv"}

\* hour and minute of the local (UTC) time of a timestamp in milliseconds
HourOf(ts) == (ts \div 3600000) % 24

MinuteOf(ts) == (ts \div 60000) % 60

\* the positions of the valid entries of es that fall in minute m
InMinute(es, m) ==
    {i \in 1..Len(es) :
        IsValid(es[i]) /\ HourOf(es[i].date) * 60 + MinuteOf(es[i].date) = m}

RECURSIVE SumSgv(_, _)
SumSgv(es, I) ==
    IF I = {} THEN 0
    ELSE LET i == CHOOSE j \in I : TRUE
         IN  es[i].sgv + SumSgv(es, I \ {i})

\* C13: the reducer gives exactly one entry, and the upsert one row, per
\* distinct minute of day (hour*60 + minute of the local time) among the
\* valid entries, every key lies in 0..1439, and an empty list gives an
\* empty mapping and no average row.
C13_ReducerShape ==
    \A i \in 1..Len(calls) :
        LET c    == calls[i]
            keys == {m \in 0..1439 : InMinute(c.entries, m) # {}}
            md   == minute_data(c.entries)
            rows == data_to_insert(c.date_str, md)
        IN  /\ DOMAIN md = keys
            /\ \A j \in 1..Len(c.entries) :
                  IsValid(c.entries[j]) =>
                     \E m \in keys : j \in InMinute(c.entries, m)
            /\ Cardinality(rows) = Cardinality(keys)
            /\ {r.minute_of_day : r \in rows} = keys
            /\ keys # {} => RowsOf(c.post, c.date_str) = rows
            /\ c.entries = <<>> => md = <<>> /\ rows = {}

\* three valid entries in two minutes, one of them on another day
C13_Witness ==
    /\ Len(calls) = 1
    /\ Len(calls[1].entries) = 3
    /\ {r.minute_of_day : r \in RowsOf(running_averages, ReduceDate)}
          = {0, 1439}
    /\ \A j \in 1..3 : IsValid(calls[1].entries[j])
    /\ \E j \in 1..3 : calls[1].entries[j].date = 172799999

\* C14: the stored average of a minute is the mean of its values rounded to
\* the nearest integer, an exact half going to the even neighbour for every
\* input; 100 and 120 in minute 0 give 110.
C14_ReducerAverage ==
    \A i \in 1..Len(calls) :
        LET c == calls[i]
        IN  /\ \A r \in RowsOf(c.post, c.date_str) :
                  LET I == InMinute(c.entries, r.minute_of_day)
                      n == Cardinality(I)
                      d == n * r.avg_sgv - SumSgv(c.entries, I)
                      a == IF d < 0 THEN -d ELSE d
                  IN  I # {} => /\ 2 * a <= n
                                /\ 2 * a = n => r.avg_sgv % 2 = 0
            /\ c.entries = <<[date |-> 10000, sgv |-> 100],
                             [date |-> 40000, sgv |-> 120]>>
                  => RowsOf(c.post, c.date_str) = {Row(c.date_str, 0, 110)}

\* 101 and 102 in one minute: the mean 101.5 is stored as 102
C14_Witness ==
    /\ Len(calls) = 1
    /\ calls[1].entries = <<[date |-> 40000, sgv |-> 101],
                            [date |-> 59999, sgv |-> 102]>>
    /\ RowsOf(running_averages, ReduceDate) = {Row(ReduceDate, 0, 102)}

Reorderings(n) ==
    {f \in [1..n -> 1..n] : \A a, b \in 1..n : f[a] = f[b] => a = b}

\* C15: every permutation of the entry list reduces to the same rows and
\* leaves the same store.
C15_ReducerOrderIndependent ==
    \A i \in 1..Len(calls) :
        LET c == calls[i]
            n == Len(c.entries)
        IN  \A f \in Reorderings(n) :
               LET es == [j \in 1..n |-> c.entries[f[j]]]
               IN  /\ data_to_insert(c.date_str, minute_data(es))
                        = data_to_insert(c.date_str, minute_data(c.entries))
                   /\ insert_minute_averages(c.pre, c.date_str, es, c.fault)
                        = c.post

\* three different valid entries, two of them in the same minute
C15_Witness ==
    /\ Len(calls) = 1
    /\ calls[1].entries = <<[date |-> 10000, sgv |-> 100],
                            [date |-> 45296000, sgv |-> 7],
                            [date |-> 40000, sgv |-> 120]>>
    /\ RowsOf(running_averages, ReduceDate)
          = {Row(ReduceDate, 0, 110), Row(ReduceDate, 754, 7)}
\* the valid entries of a list, in order
ValidOnly(es) == SelectSeq(es, IsValid)

\* C19: an entry without a value or without a timestamp adds to no sum,
\* count or key: the result is that of the valid entries alone, a value
\* of 0 and a timestamp of 0 being valid; a non-empty list with no valid
\* entry leaves the placeholder row and advances the latest date.
C19_MalformedEntriesSkipped ==
    \A i \in 1..Len(calls) :
        LET c     == calls[i]
            md    == minute_data(c.entries)
            valid == ValidOnly(c.entries)
        IN  /\ md = minute_data(valid)
            /\ c.post = insert_minute_averages(c.pre, c.date_str, valid,
                                               c.fault)
            /\ \A m \in DOMAIN md :
                  /\ md[m].count = Cardinality(InMinute(c.entries, m))
                  /\ md[m].sum = SumSgv(c.entries, InMinute(c.entries, m))
            /\ (\E j \in 1..Len(c.entries) :
                   c.entries[j] = [date |-> 0, sgv |-> 0]) => 0 \in DOMAIN md
            /\ (c.entries # <<>> /\ valid = <<>>) =>
                  /\ c.post = c.pre \cup {Row(c.date_str, 0, 0)}
                  /\ get_latest_date(running_averages) = c.date_str

\* a list of two malformed entries was given for the day after the latest
C19_Witness ==
    /\ Len(calls) = 1
    /\ calls[1].entries = <<[sgv |-> 100], [date |-> 10000]>>
    /\ calls[1].pre = {Row(<<2024, 2, 28>>, 0, 0)}
    /\ running_averages =
          {Row(<<2024, 2, 28>>, 0, 0), Row(ReduceDate, 0, 0)}
(***************************************************************************)
(* Two invocations of the script at the same time on the same database    *)
(* file.  SQLite runs each statement-and-commit of the archiver as one     *)
(* transaction; a writer that cannot take the lock gets a sqlite3.Error.   *)
(* Both runs are given --initial-days-back 2 and the day does not change.  *)
(***************************************************************************)
NextConc ==
    \E p \in Procs :
        \/ StartWith(p, {2})
        \/ LoopHead(p)
        \/ FetchFail(p)
        \/ FetchOk(p)
        \/ StoreDay(p)

SpecConc == Init /\ [][NextConc]_vars

\* the rows a run can write for a date: the placeholder, or the averages of
\* one fetch result
WritableRows(d) ==
    {Row(d, 0, 0)} \cup
    UNION {data_to_insert(d, minute_data(es)) : es \in FetchResults}

\* C16: with two runs interleaving their store operations, also on the same
\* due day, every key (d, m) holds at most one row, every row is one the
\* store started with or one that a run wrote, and no step replaces or
\* removes a real average in favour of the placeholder value.
C16_ConcurrentWriters ==
    /\ [](/\ \A r \in running_averages : \A t \in running_averages :
                SameKey(r, t) => r = t
          /\ \A r \in running_averages :
                r \in UNION InitTables \/ r \in WritableRows(r.date_str))
    /\ [][\A r \in running_averages :
             r.avg_sgv # 0 =>
                \E t \in running_averages' : SameKey(r, t) /\ t.avg_sgv # 0]_vars

\* both runs fetched the same day; one stored its averages, then the other,
\* whose fetch was empty, marked the day and left the averages in place
C16_Witness ==
    /\ calls # <<>>
    /\ calls[1].op = "mark"
    /\ calls[1].fault = "none"
    /\ Row(calls[1].date_str, 0, 100) \in calls[1].pre
    /\ Row(calls[1].date_str, 0, 100) \in running_averages
    /\ \A p \in Procs :
          /\ fetched[p] # <<>>
          /\ fetched[p][Len(fetched[p])] = strptime(calls[1].date_str)
(***************************************************************************)
(* Single-step mode: the variant of the script that processes at most one  *)
(* day per invocation.  It shares the loop head, the fetch and the         *)
(* archiver with the catch-up script and stops after the archiver call.    *)
(***************************************************************************)
SingleStepStore(p) == StoreDayThen(p, Faults, "done")

NextSingle ==
    \/ Start(1)
    \/ LoopHead(1)
    \/ FetchFail(1)
    \/ FetchOk(1)
    \/ SingleStepStore(1)
    \/ Tick

SpecSingle == Init /\ [][NextSingle]_vars

\* C17: a single-step invocation fetches at most one day and stops after it
\* whether the step succeeded or failed; the rows it writes are all of that
\* one date; when no day is due it leaves the store as it is.
C17_SingleStep ==
    /\ [](Len(fetched[1]) <= 1)
    /\ [][/\ (pc[1] \in {"fetch", "store"} /\ pc'[1] # pc[1])
                => pc'[1] \in {"store", "done"}
          /\ (pc[1] = "store" /\ pc'[1] # "store") => pc'[1] = "done"
          /\ running_averages' # running_averages =>
                /\ pc[1] = "store" /\ pc'[1] = "done"
                /\ \A r \in running_averages' \ running_averages :
                      r.date_str = strftime(fetched[1][1])
          /\ (pc[1] = "loop" /\ pc'[1] = "done") =>
                running_averages' = running_averages]_vars

\* the invocation stored one day and stopped although the next day is due
C17_Witness ==
    /\ pc[1] = "done"
    /\ Len(fetched[1]) = 1
    /\ calls # <<>>
    /\ calls[1].post # calls[1].pre
    /\ running_averages = calls[1].post
    /\ calls[1].date_str = strftime(fetched[1][1])
    /\ IsDue(NextDate(today, get_latest_date(running_averages),
                      initial_days_back[1]), today)

\* C18: every iteration of the catch-up loop either advances the watermark
\* to the day it processed or ends the run; in particular a failed store
\* write ends the run instead of leading to the same day being fetched again.
C18_IterationAdvancesOrEnds ==
    [][(pc[1] = "store" /\ pc'[1] # "store") =>
          \/ pc'[1] = "done"
          \/ /\ get_latest_date(running_averages') = date_str(1)
             /\ get_latest_date(running_averages) # date_str(1)]_vars

\* C20: in sequential operation the watermark never decreases, a step that
\* writes moves a non-empty watermark w to w+1, no row is written for a
\* date <= the watermark, and no date that has rows is written again.  (A
\* step that leaves the store as it is leaves the watermark as it is.)
C20_WatermarkMonotonic ==
    [][running_averages' # running_averages =>
          \A w \in {get_latest_date(running_averages)} :
          \A w2 \in {get_latest_date(running_averages')} :
              /\ w # None =>
                    /\ w2 # None /\ StrLeq(w, w2)
                    /\ strptime(w2) = strptime(w) + 1
              /\ \A r \in running_averages' \ running_averages :
                    /\ w # None => ~StrLeq(r.date_str, w)
                    /\ RowsOf(running_averages, r.date_str) = {}
                    /\ r.date_str = w2]_vars

\* the leap day was stored on the day after it: the watermark went from
\* 2024-02-28 to 2024-02-29
C20_Witness ==
    /\ calls # <<>>
    /\ get_latest_date(calls[1].pre) = <<2024, 2, 28>>
    /\ get_latest_date(running_averages) = <<2024, 2, 29>>
    /\ calls[1].post = running_averages
====
